---- MODULE Spec2Model ----
(***************************************************************************)
(* A model of the seq2seq inference driver bin/infer.py (flag handling,    *)
(* output-key filtering, checkpoint restore, the decode/print loop, the    *)
(* attention and beam dumps) and of the two training utilities exercised   *)
(* by seq2seq/test/train_utils_test.py (learning-rate decay, TrainOptions  *)
(* persistence).                                                           *)
(*                                                                         *)
(* Text is modelled as sequences of one-character strings, so that join,   *)
(* split, replace and strip are computed character by character.  Paths    *)
(* and dictionary keys are TLA+ strings.  Python's None is the sentinel    *)
(* None below; it is never a value of a path domain.                       *)
(***************************************************************************)
EXTENDS Integers, Sequences, FiniteSets, TLC

VARIABLES
  FLAGS,                  \* the parsed command-line flags (infer.py 33-69)
  model_predictions,      \* the dict returned by create_inference_graph
  latest,                 \* what tf.train.latest_checkpoint(model_dir) returns
  source,                 \* the examples the predictions iterator yields, in order
  pending,                \* the examples the iterator has not yielded yet
  pc,                     \* main's position
  raised,                 \* the exception that ended main, or None
  predictions,            \* main's local "predictions" after filtering
  unk_replace_fn,         \* main's local unk_replace_fn
  checkpoint_path,        \* main's local checkpoint_path
  sess_log,               \* saver/session calls made so far, in order
  attention_scores_accum, \* main's local list
  beam_accum,             \* main's local dict of four lists
  idx,                    \* number of loop iterations completed
  unk_calls,              \* the arguments of every call of unk_replace_fn
  stdout,                 \* the lines printed
  fs,                     \* the file-system writes made, in order
  fn_in, fn_out,          \* get_prediction_length applied to an input
  lr,                     \* learning-rate decay: parameters, step, value
  opts, disk, loaded      \* TrainOptions: the record, the files, the loaded record

main_vars == <<FLAGS, model_predictions, latest, source, pending, pc, raised,
               predictions, unk_replace_fn, checkpoint_path, sess_log,
               attention_scores_accum, beam_accum, idx, unk_calls, stdout, fs>>
fn_vars == <<fn_in, fn_out>>
lr_vars == <<lr>>
opts_vars == <<opts, disk, loaded>>
vars == <<main_vars, fn_vars, lr_vars, opts_vars>>

None == "<None>"

(***************************************************************************)
(* Bounds of the model.                                                    *)
(***************************************************************************)
MaxExamples == 2
MaxTokens == 2
MaxSourceLen == 3
MaxStep == 4

(***************************************************************************)
(* Text.                                                                   *)
(***************************************************************************)
SEQUENCE_END == <<"S","E","Q","U","E","N","C","E","_","E","N","D">>
UNK == <<"U","N","K">>
BPE_MARKER == <<"@","@"," ">>
Whitespace == {" ", "\t", "\n", "\r"}

\* s[i..] starts with p
StartsAt(s, p, i) ==
  /\ i + Len(p) - 1 <= Len(s)
  /\ \A k \in 1..Len(p) : s[i + k - 1] = p[k]

\* str.find, one-based; 0 when p does not occur in s
Find(s, p) ==
  LET hits == {i \in 1..(Len(s) + 1) : StartsAt(s, p, i)}
  IN IF hits = {} THEN 0 ELSE CHOOSE i \in hits : \A j \in hits : i <= j

Contains(s, p) == Find(s, p) # 0

\* delimiter.join(tokens)
RECURSIVE Join(_, _)
Join(delim, tokens) ==
  IF tokens = <<>> THEN <<>>
  ELSE IF Len(tokens) = 1 THEN tokens[1]
  ELSE tokens[1] \o delim \o Join(delim, Tail(tokens))

\* s.split(sep)[0]
SplitFirst(s, sep) ==
  IF Find(s, sep) = 0 THEN s ELSE SubSeq(s, 1, Find(s, sep) - 1)

\* s.replace(old, new): non-overlapping occurrences, left to right
RECURSIVE Replace(_, _, _)
Replace(s, old, new) ==
  IF s = <<>> THEN <<>>
  ELSE IF StartsAt(s, old, 1)
       THEN new \o Replace(SubSeq(s, Len(old) + 1, Len(s)), old, new)
       ELSE <<s[1]>> \o Replace(Tail(s), old, new)

\* s.strip()
RECURSIVE LStrip(_)
LStrip(s) ==
  IF s # <<>> /\ s[1] \in Whitespace THEN LStrip(Tail(s)) ELSE s
RECURSIVE RStrip(_)
RStrip(s) ==
  IF s # <<>> /\ s[Len(s)] \in Whitespace
  THEN RStrip(SubSeq(s, 1, Len(s) - 1)) ELSE s
Strip(s) == RStrip(LStrip(s))

\* infer.py 236-239: the sentence printed for the (first-beam) tokens
Sentence(delimiter, predicted_tokens) ==
  Strip(Replace(SplitFirst(Join(delimiter, predicted_tokens), SEQUENCE_END),
                BPE_MARKER, <<>>))

\* s.split(): the whitespace-separated words of s
RECURSIVE Words(_)
Words(s) ==
  LET t == LStrip(s)
      ends == {i \in 1..Len(t) : t[i] \in Whitespace}
      cut == IF ends = {} THEN Len(t) + 1
             ELSE CHOOSE i \in ends : \A j \in ends : i <= j
  IN IF t = <<>> THEN <<>>
     ELSE <<SubSeq(t, 1, cut - 1)>> \o Words(SubSeq(t, cut, Len(t)))

(***************************************************************************)
(* Token arrays.  A decoded "predicted_tokens" array is one-dimensional    *)
(* (ndim = 1, data a sequence of tokens) or, under beam search,            *)
(* two-dimensional (ndim = 2, data a sequence of rows, one token per       *)
(* beam).                                                                  *)
(***************************************************************************)
Array1(tokens) == [ndim |-> 1, data |-> tokens]
Array2(rows) == [ndim |-> 2, data |-> rows]

\* infer.py 196-197: predicted_tokens[:, 0] when np.ndim(predicted_tokens) > 1
FirstBeam(arr) ==
  IF arr.ndim > 1 THEN [i \in 1..Len(arr.data) |-> arr.data[i][1]]
  ELSE arr.data

\* The truth value Python takes of (_ == "SEQUENCE_END") for one item of
\* enumerate(array): a bool for a token; for a row of a 2-D array the
\* comparison is element-wise and bool() of an array of more than one
\* element raises ValueError.
ItemTruth(arr, i) ==
  IF arr.ndim = 1 THEN (IF arr.data[i] = SEQUENCE_END THEN "True" ELSE "False")
  ELSE IF Len(arr.data[i]) > 1 THEN "ValueError"
  ELSE IF Len(arr.data[i]) = 1 /\ arr.data[i][1] = SEQUENCE_END THEN "True"
  ELSE "False"

\* The result standing for "get_prediction_length raised ValueError".
ValueErrorLen == -1

\* infer.py 76-79.  The generator is consumed by next(): items are tested in
\* order, the first true one yields i + 1 for Python's zero-based i, which is
\* the one-based index used here; a raising test propagates, exhaustion
\* yields the default len(array).
RECURSIVE PredictionLengthFrom(_, _)
PredictionLengthFrom(arr, i) ==
  IF i > Len(arr.data) THEN Len(arr.data)
  ELSE CASE ItemTruth(arr, i) = "True" -> i
         [] ItemTruth(arr, i) = "ValueError" -> ValueErrorLen
         [] OTHER -> PredictionLengthFrom(arr, i + 1)

\* a slip: the zero-based index i returned for i + 1
PredictionLengthZeroBased(arr) ==
  IF arr.ndim = 1 /\ \E i \in 1..Len(arr.data) : arr.data[i] = SEQUENCE_END
  THEN PredictionLengthFrom(arr, 1) - 1
  ELSE PredictionLengthFrom(arr, 1)

get_prediction_length(arr) == PredictionLengthFrom(arr, 1)

\* array[:n] along one axis, as Python slices: a negative n counts from the end
SliceTo(seq, n) ==
  IF n >= 0 THEN SubSeq(seq, 1, IF n < Len(seq) THEN n ELSE Len(seq))
  ELSE SubSeq(seq, 1, IF Len(seq) + n > 0 THEN Len(seq) + n ELSE 0)

\* matrix[:rows, :cols]
Slice2(matrix, rows, cols) ==
  [i \in 1..Len(SliceTo(matrix, rows)) |-> SliceTo(matrix[i], cols)]

\* matrix[:, :cols]
SliceCols(matrix, cols) ==
  [i \in 1..Len(matrix) |-> SliceTo(matrix[i], cols)]

\* infer.py 81-86, on the dict of one example; the caller has checked that
\* get_prediction_length does not raise and that the keys are present
get_scores(predictions_dict) ==
  Slice2(predictions_dict["attention_scores"],
         get_prediction_length(predictions_dict["predicted_tokens"]),
         predictions_dict["features.source_len"])

(***************************************************************************)
(* Prediction keys and their filtering (infer.py 130-155).                 *)
(***************************************************************************)
BaseKeys == {"predicted_tokens", "features.source_len",
             "features.source_tokens", "attention_scores"}
BeamKeys == {"beam_search_output.predicted_ids",
             "beam_search_output.beam_parent_ids",
             "beam_search_output.scores",
             "beam_search_output.log_probs"}

\* `not x` for a string-or-None flag
Falsy(x) == x \in {None, ""}

\* a slip: the beam keys fetched whether or not dump_beams is given
PredictionKeysAlwaysBeams(flags) ==
  IF flags.unk_replace THEN BaseKeys \cup BeamKeys \cup {"attention_scores"}
  ELSE BaseKeys \cup BeamKeys

\* infer.py 131-148: the set prediction_keys, as main builds it
PredictionKeys(flags) ==
  LET base == BaseKeys
      with_beams == IF flags.dump_beams # None THEN base \cup BeamKeys ELSE base
  IN IF flags.unk_replace THEN with_beams \cup {"attention_scores"}
     ELSE with_beams

\* infer.py 155: {k: v for k, v in predictions.items() if k in prediction_keys}
FilterPredictions(preds, keys) ==
  [k \in {k \in DOMAIN preds : k \in keys} |-> preds[k]]

\* a slip: "in" for "not in"
MissingAttentionInverted(flags, preds) ==
  flags.unk_replace /\ "attention_scores" \in DOMAIN preds

\* infer.py 144-147: the condition under which main raises ValueError
MissingAttention(flags, preds) ==
  flags.unk_replace /\ "attention_scores" \notin DOMAIN preds

\* a slip: "is None" for "not"
ResolveCheckpointIsNone(flag, latest_in_model_dir) ==
  IF flag = None THEN latest_in_model_dir ELSE flag

\* infer.py 159-161
ResolveCheckpoint(flag, latest_in_model_dir) ==
  IF Falsy(flag) THEN latest_in_model_dir ELSE flag

(***************************************************************************)
(* UNK replacement.  seq2seq.inference.unk_replace and get_unk_mapping are *)
(* not among the sources; they are modelled from the specification:  an    *)
(* UNK placeholder is replaced by a source word chosen via the attention   *)
(* scores handed over (any column handed over may be the chosen one, the   *)
(* score values being opaque), looked up in the mapping when one is given. *)
(* A placeholder whose attention row has no column is left as it is.       *)
(***************************************************************************)
NoMapping == [kind |-> "None"]
get_unk_mapping(path) ==
  [kind |-> "dict", table |-> [w \in {<<"x">>} |-> <<"X">>]]

MapLookup(mapping, word) ==
  IF mapping.kind = "dict" /\ word \in DOMAIN mapping.table
  THEN mapping.table[word] ELSE word

\* the source columns (one-based) present in one row of attention scores
Columns(row) == {row[c].s : c \in 1..Len(row)}

unk_replace(source_tokens, predicted_tokens, attention_scores, mapping) ==
  {r \in [1..Len(predicted_tokens) ->
            {predicted_tokens[i] : i \in 1..Len(predicted_tokens)}
            \cup {MapLookup(mapping, source_tokens[c]) : c \in 1..Len(source_tokens)}] :
     \A i \in 1..Len(predicted_tokens) :
       IF /\ predicted_tokens[i] = UNK
          /\ i <= Len(attention_scores)
          /\ Columns(attention_scores[i]) # {}
       THEN \E c \in Columns(attention_scores[i]) :
              r[i] = MapLookup(mapping, source_tokens[c])
       ELSE r[i] = predicted_tokens[i]}

NoFn == [fn |-> "None"]
Partial(mapping) == [fn |-> "unk_replace", mapping |-> mapping]

(***************************************************************************)
(* Examples: what the session yields for one input sentence.               *)
(***************************************************************************)
\* attention scores of one example: a rows x cols matrix of opaque cells
AttentionMatrix(id, rows, cols) ==
  [t \in 1..rows |-> [c \in 1..cols |-> [ex |-> id, t |-> t, s |-> c]]]

\* the token array of a decode: one-dimensional when width = 0, else
\* [len, width] with the given tokens as beam 0 and "a" in the other beams
TokenArray(tokens, width) ==
  IF width = 0 THEN Array1(tokens)
  ELSE Array2([i \in 1..Len(tokens) |->
                 [b \in 1..width |-> IF b = 1 THEN tokens[i] ELSE <<"a">>]])

\* a source sentence of the given words, ended by SEQUENCE_END and padded
\* with empty tokens to the width of its batch
Example(id, tokens, width, words, padding) ==
  [id |-> id,
   predicted_tokens |-> TokenArray(tokens, width),
   source_tokens |-> words \o <<SEQUENCE_END>> \o [i \in 1..padding |-> <<>>],
   source_len |-> Len(words) + 1,
   attention_scores |->
     AttentionMatrix(id, Len(tokens), Len(words) + 1 + padding)]

\* the value the iterator yields under one fetched key
ExampleValue(ex, key) ==
  CASE key = "predicted_tokens" -> ex.predicted_tokens
    [] key = "features.source_tokens" -> ex.source_tokens
    [] key = "features.source_len" -> ex.source_len
    [] key = "attention_scores" -> ex.attention_scores
    [] OTHER -> <<key, ex.id>>

\* create_predictions_iter yields, per example, a dict with the fetched keys
PredictionsDict(preds, ex) == [k \in DOMAIN preds |-> ExampleValue(ex, k)]

RECURSIVE SeqsUpTo(_, _)
SeqsUpTo(S, n) ==
  IF n = 0 THEN {<<>>}
  ELSE SeqsUpTo(S, n - 1) \cup
       {Append(q, x) : q \in {q \in SeqsUpTo(S, n - 1) : Len(q) = n - 1}, x \in S}

(***************************************************************************)
(* main (infer.py 114-250).                                                *)
(***************************************************************************)
Call(name, arg) == [call |-> name, arg |-> arg]

EmptyBeamAccum ==
  [predicted_ids |-> <<>>, beam_parent_ids |-> <<>>,
   scores |-> <<>>, log_probs |-> <<>>]

\* the state in which the other parts of the model rest while main runs
NotApplied == [applied |-> FALSE]
FnIdle == fn_in = Array1(<<>>) /\ fn_out = NotApplied
LrIdle == lr = [at |-> "idle"]
NoFiles == [p \in {} |-> None]
OptsIdle == opts = [at |-> "idle"] /\ disk = NoFiles /\ loaded = [at |-> "idle"]

\* main has built the inference graph (infer.py 118-128) and is about to
\* filter the predictions
MainInit(flag_set, model_set, source_set) ==
  /\ FLAGS \in flag_set
  /\ model_predictions \in model_set
  /\ latest = "model/model.ckpt-9"
  /\ source \in source_set
  /\ pending = source
  /\ pc = "filter"
  /\ raised = None
  /\ predictions = model_predictions
  /\ unk_replace_fn = NoFn
  /\ checkpoint_path = None
  /\ sess_log = <<>>
  /\ attention_scores_accum = <<>>
  /\ beam_accum = EmptyBeamAccum
  /\ idx = 0
  /\ unk_calls = <<>>
  /\ stdout = <<>>
  /\ fs = <<>>
  /\ FnIdle /\ LrIdle /\ OptsIdle

\* infer.py 130-155
FilterKeys ==
  /\ pc = "filter"
  /\ IF MissingAttention(FLAGS, predictions)
     THEN /\ raised' = "ValueError"
          /\ pc' = "raised"
          /\ UNCHANGED <<predictions, unk_replace_fn>>
     ELSE /\ unk_replace_fn' =
               IF FLAGS.unk_replace
               THEN Partial(IF FLAGS.unk_mapping # None
                            THEN get_unk_mapping(FLAGS.unk_mapping)
                            ELSE NoMapping)
               ELSE NoFn
          /\ predictions' = FilterPredictions(predictions, PredictionKeys(FLAGS))
          /\ pc' = "saver"
          /\ UNCHANGED raised
  /\ UNCHANGED <<FLAGS, model_predictions, latest, source, pending,
                 checkpoint_path, sess_log, attention_scores_accum, beam_accum,
                 idx, unk_calls, stdout, fs, fn_vars, lr_vars, opts_vars>>

\* infer.py 157-161
CreateSaver ==
  /\ pc = "saver"
  /\ sess_log' = Append(sess_log, Call("Saver", None))
  /\ checkpoint_path' = ResolveCheckpoint(FLAGS.checkpoint_path, latest)
  /\ pc' = "session"
  /\ UNCHANGED <<FLAGS, model_predictions, latest, source, pending, raised,
                 predictions, unk_replace_fn, attention_scores_accum,
                 beam_accum, idx, unk_calls, stdout, fs,
                 fn_vars, lr_vars, opts_vars>>

\* infer.py 163-167
InitVariables ==
  /\ pc = "session"
  /\ sess_log' = sess_log \o <<Call("Session", None),
                               Call("global_variables_initializer", None),
                               Call("local_variables_initializer", None),
                               Call("tables_initializer", None)>>
  /\ pc' = "restore"
  /\ UNCHANGED <<FLAGS, model_predictions, latest, source, pending, raised,
                 predictions, unk_replace_fn, checkpoint_path,
                 attention_scores_accum, beam_accum, idx, unk_calls, stdout, fs,
                 fn_vars, lr_vars, opts_vars>>

\* infer.py 169-171
Restore ==
  /\ pc = "restore"
  /\ sess_log' = Append(sess_log, Call("restore", checkpoint_path))
  /\ pc' = "setup"
  /\ UNCHANGED <<FLAGS, model_predictions, latest, source, pending, raised,
                 predictions, unk_replace_fn, checkpoint_path,
                 attention_scores_accum, beam_accum, idx, unk_calls, stdout, fs,
                 fn_vars, lr_vars, opts_vars>>

\* infer.py 173-188
Setup ==
  /\ pc = "setup"
  /\ attention_scores_accum' = <<>>
  /\ beam_accum' = EmptyBeamAccum
  /\ fs' = IF FLAGS.dump_attention_dir # None
           THEN Append(fs, [op |-> "MakeDirs", path |-> FLAGS.dump_attention_dir])
           ELSE fs
  /\ sess_log' = Append(sess_log, Call("create_predictions_iter", None))
  /\ pc' = "loop"
  /\ UNCHANGED <<FLAGS, model_predictions, latest, source, pending, raised,
                 predictions, unk_replace_fn, checkpoint_path, idx, unk_calls,
                 stdout, fn_vars, lr_vars, opts_vars>>

\* "{:05d}".format(n) for n >= 0: the decimal digits, zero-padded to five
RECURSIVE NumDigits(_)
NumDigits(n) == IF n < 10 THEN 1 ELSE 1 + NumDigits(n \div 10)
RECURSIVE Zeros(_)
Zeros(k) == IF k <= 0 THEN "" ELSE "0" \o Zeros(k - 1)
Format05d(n) == Zeros(5 - NumDigits(n)) \o ToString(n)

\* os.path.join(dir, name) for a relative name and a dir without a trailing
\* separator
PathJoin(dir, name) == IF dir = "" THEN name ELSE dir \o "/" \o name

\* infer.py 217-218
PlotPath(flags, i) == PathJoin(flags.dump_attention_dir, Format05d(i) \o ".png")

\* infer.py 216: whether the plot of an example is drawn
PlotWanted(flags) == ~ (~ Falsy(flags.dump_attention_no_plot))

\* a slip: the slice taken to source_len, not source_len - 1
HandedScoresToSourceLen(predictions_dict) ==
  SliceCols(predictions_dict["attention_scores"],
            predictions_dict["features.source_len"])

\* infer.py 208: the attention scores handed to unk_replace_fn
HandedScores(predictions_dict) ==
  SliceCols(predictions_dict["attention_scores"],
            predictions_dict["features.source_len"] - 1)

\* infer.py 88-112 and 81-86: the exception create_figure and get_scores
\* raise on the dict of an example, or None.  Both evaluate
\* get_prediction_length before they read "attention_scores".
AttentionError(predictions_dict) ==
  IF get_prediction_length(predictions_dict["predicted_tokens"]) = ValueErrorLen
  THEN "ValueError"
  ELSE IF "attention_scores" \notin DOMAIN predictions_dict THEN "KeyError"
  ELSE None

\* infer.py 227-234: the exception the beam dump raises, or None
BeamError(predictions_dict) ==
  IF BeamKeys \subseteq DOMAIN predictions_dict THEN None ELSE "KeyError"

\* a slip: the log-probabilities appended to the scores list
AppendBeamsSwapped(accum, predictions_dict) ==
  [predicted_ids |-> Append(accum.predicted_ids,
                            predictions_dict["beam_search_output.predicted_ids"]),
   beam_parent_ids |-> Append(accum.beam_parent_ids,
                              predictions_dict["beam_search_output.beam_parent_ids"]),
   scores |-> Append(accum.scores, predictions_dict["beam_search_output.log_probs"]),
   log_probs |-> Append(accum.log_probs,
                        predictions_dict["beam_search_output.log_probs"])]

\* infer.py 227-234
AppendBeams(accum, predictions_dict) ==
  [predicted_ids |-> Append(accum.predicted_ids,
                            predictions_dict["beam_search_output.predicted_ids"]),
   beam_parent_ids |-> Append(accum.beam_parent_ids,
                              predictions_dict["beam_search_output.beam_parent_ids"]),
   scores |-> Append(accum.scores, predictions_dict["beam_search_output.scores"]),
   log_probs |-> Append(accum.log_probs,
                        predictions_dict["beam_search_output.log_probs"])]

\* infer.py 214-223: the file-system writes of the attention dump of example i
AttentionWrites(flags, i) ==
  IF PlotWanted(flags)
  THEN <<[op |-> "savefig", path |-> PlotPath(flags, i)]>>
  ELSE <<>>

\* infer.py 189-241: one iteration of the decode loop
LoopBody ==
  /\ pc = "loop"
  /\ pending # <<>>
  /\ LET predictions_dict == PredictionsDict(predictions, Head(pending))
         first_beam == FirstBeam(predictions_dict["predicted_tokens"])
         source_tokens == predictions_dict["features.source_tokens"]
         use_unk == unk_replace_fn # NoFn
         dump_attention == FLAGS.dump_attention_dir # None
         dump_beams == FLAGS.dump_beams # None
         attention_error ==
           IF dump_attention THEN AttentionError(predictions_dict) ELSE None
         beam_error ==
           IF dump_beams THEN BeamError(predictions_dict) ELSE None
     IN \E predicted_tokens \in
             (IF use_unk
              THEN unk_replace(source_tokens, first_beam,
                               HandedScores(predictions_dict),
                               unk_replace_fn.mapping)
              ELSE {first_beam}) :
          /\ pending' = Tail(pending)
          /\ sess_log' = Append(sess_log, Call("fetch", None))
          /\ unk_calls' =
               IF use_unk
               THEN Append(unk_calls,
                           [example |-> Head(pending).id,
                            source_tokens |-> source_tokens,
                            predicted_tokens |-> first_beam,
                            attention_scores |-> HandedScores(predictions_dict),
                            result |-> predicted_tokens])
               ELSE unk_calls
          /\ IF attention_error # None
             THEN /\ raised' = attention_error
                  /\ pc' = "raised"
                  /\ UNCHANGED <<fs, attention_scores_accum, beam_accum,
                                 stdout, idx>>
             ELSE /\ fs' = IF dump_attention
                           THEN fs \o AttentionWrites(FLAGS, idx)
                           ELSE fs
                  /\ attention_scores_accum' =
                       IF dump_attention
                       THEN Append(attention_scores_accum,
                                   get_scores(predictions_dict))
                       ELSE attention_scores_accum
                  /\ IF beam_error # None
                     THEN /\ raised' = beam_error
                          /\ pc' = "raised"
                          /\ UNCHANGED <<beam_accum, stdout, idx>>
                     ELSE /\ beam_accum' =
                               IF dump_beams
                               THEN AppendBeams(beam_accum, predictions_dict)
                               ELSE beam_accum
                          /\ stdout' = Append(stdout,
                                              Sentence(FLAGS.delimiter,
                                                       predicted_tokens))
                          /\ idx' = idx + 1
                          /\ UNCHANGED <<raised, pc>>
  /\ UNCHANGED <<FLAGS, model_predictions, latest, source, predictions,
                 unk_replace_fn, checkpoint_path, fn_vars, lr_vars, opts_vars>>

\* infer.py 243-250, once the iterator is exhausted
WriteArchives ==
  /\ pc = "loop"
  /\ pending = <<>>
  /\ fs' = fs
           \o (IF FLAGS.dump_attention_dir # None
               THEN <<[op |-> "savez",
                       path |-> PathJoin(FLAGS.dump_attention_dir,
                                         "attention_scores.npz"),
                       arrays |-> attention_scores_accum]>>
               ELSE <<>>)
           \o (IF FLAGS.dump_beams # None
               THEN <<[op |-> "savez", path |-> FLAGS.dump_beams,
                       arrays |-> beam_accum]>>
               ELSE <<>>)
  /\ pc' = "done"
  /\ UNCHANGED <<FLAGS, model_predictions, latest, source, pending, raised,
                 predictions, unk_replace_fn, checkpoint_path, sess_log,
                 attention_scores_accum, beam_accum, idx, unk_calls, stdout,
                 fn_vars, lr_vars, opts_vars>>

Next ==
  \/ FilterKeys
  \/ CreateSaver
  \/ InitVariables
  \/ Restore
  \/ Setup
  \/ LoopBody
  \/ WriteArchives

(***************************************************************************)
(* The inputs of the model of main.                                        *)
(***************************************************************************)
Tensor(key) == <<"Tensor", key>>

\* a model's prediction dict: always the tokens and the features, and
\* optionally attention scores and the beam-search outputs
ModelPredictions(has_attention, has_beams) ==
  [k \in {"predicted_tokens", "features.source_len", "features.source_tokens",
          "logits", "labels.target_tokens"}
         \cup (IF has_attention THEN {"attention_scores"} ELSE {})
         \cup (IF has_beams THEN BeamKeys ELSE {})
     |-> Tensor(k)]

Models == {ModelPredictions(a, b) : a \in BOOLEAN, b \in BOOLEAN}

Flags(ckpt, delimiter, unk, mapping, dir, no_plot, beams) ==
  [model_dir |-> "model", checkpoint_path |-> ckpt, delimiter |-> delimiter,
   unk_replace |-> unk, unk_mapping |-> mapping, dump_attention_dir |-> dir,
   dump_attention_no_plot |-> no_plot, dump_beams |-> beams]

FlagsMain ==
  {Flags(ckpt, <<" ">>, unk, None, dir, no_plot, beams) :
     ckpt \in {None, "", "model/model.ckpt-3"}, unk \in BOOLEAN,
     dir \in {None, "att"}, no_plot \in {None, "", "1"},
     beams \in {None, "beams.npz"}}

ExamplesMain ==
  {Example(id, <<<<"a">>, SEQUENCE_END, <<"a">>>>, width, <<<<"x">>>>, 1) :
     id \in 1..MaxExamples, width \in {0, 2}}

\* the iterator's contents: up to MaxExamples examples, told apart by id
SourcesMain ==
  {q \in SeqsUpTo(ExamplesMain, MaxExamples) :
     \A i, j \in 1..Len(q) : i # j => q[i].id # q[j].id}

Init == MainInit(FlagsMain, Models, SourcesMain)
Spec == Init /\ [][Next]_vars

(***************************************************************************)
(* Claims about main, checked under Spec.                                  *)
(***************************************************************************)
Yielded == Len(source) - Len(pending)
CallsOf(name) == {i \in 1..Len(sess_log) : sess_log[i].call = name}
WritesOf(op) == {i \in 1..Len(fs) : fs[i].op = op}

\* C1: when unk_replace is true and the model's predictions lack
\* "attention_scores", main raises ValueError before the saver or session is
\* created, before any restore, before any line is printed or file written;
\* and main itself raises under no other condition (every other exception
\* comes out of a callee, after the session exists).
C1_RaisesBeforeAnyEffect ==
  pc # "filter" =>
    /\ (FLAGS.unk_replace /\ "attention_scores" \notin DOMAIN model_predictions)
         <=> (pc = "raised" /\ sess_log = <<>>)
    /\ (FLAGS.unk_replace /\ "attention_scores" \notin DOMAIN model_predictions)
         => /\ raised = "ValueError"
            /\ stdout = <<>>
            /\ fs = <<>>
            /\ Yielded = 0

C1_Witness ==
  /\ pc = "raised"
  /\ raised = "ValueError"
  /\ FLAGS.unk_replace
  /\ "attention_scores" \notin DOMAIN model_predictions
  /\ FLAGS.dump_beams # None

\* C2: the dict main fetches is the model's dict restricted to the wanted
\* keys: the four base keys, plus the four beam_search_output keys exactly
\* when dump_beams is not None; kept keys keep their values; unk_replace
\* does not change the wanted set.
C2_Wanted ==
  {"predicted_tokens", "features.source_len", "features.source_tokens",
   "attention_scores"}
  \cup (IF FLAGS.dump_beams # None
        THEN {"beam_search_output.predicted_ids",
              "beam_search_output.beam_parent_ids",
              "beam_search_output.scores", "beam_search_output.log_probs"}
        ELSE {})

C2_FetchedIsIntersection ==
  (pc # "filter" /\ ~ (pc = "raised" /\ sess_log = <<>>)) =>
    /\ DOMAIN predictions = DOMAIN model_predictions \cap C2_Wanted
    /\ \A k \in DOMAIN predictions : predictions[k] = model_predictions[k]

C2_Witness ==
  /\ pc = "done"
  /\ FLAGS.unk_replace
  /\ FLAGS.dump_beams = None
  /\ BeamKeys \subseteq DOMAIN model_predictions
  /\ DOMAIN predictions = C2_Wanted

\* one restore per run that gets past the attention-scores check, after the
\* three initializers and before the first fetch
C4_RestoreOrder ==
  /\ Cardinality(CallsOf("restore")) =
       IF pc \in {"filter", "saver", "session", "restore"}
          \/ (pc = "raised" /\ Yielded = 0)
       THEN 0 ELSE 1
  /\ \A r \in CallsOf("restore") :
       /\ \A name \in {"global_variables_initializer",
                       "local_variables_initializer", "tables_initializer"} :
            \E i \in CallsOf(name) : i < r
       /\ \A f \in CallsOf("fetch") : r < f
  /\ CallsOf("fetch") # {} => CallsOf("restore") # {}

C10_BeamLists ==
  <<beam_accum.predicted_ids, beam_accum.beam_parent_ids,
    beam_accum.scores, beam_accum.log_probs>>
C10_BeamNames ==
  <<"beam_search_output.predicted_ids", "beam_search_output.beam_parent_ids",
    "beam_search_output.scores", "beam_search_output.log_probs">>

C10_AccumulatorInvariant ==
  /\ pc \in {"loop", "done"} =>
       /\ idx = Yielded
       /\ \A n \in 1..4 :
            /\ Len(C10_BeamLists[n]) = IF FLAGS.dump_beams # None THEN idx ELSE 0
            /\ \A j \in 1..Len(C10_BeamLists[n]) :
                 C10_BeamLists[n][j] = <<C10_BeamNames[n], source[j].id>>
       /\ Len(attention_scores_accum) =
            IF FLAGS.dump_attention_dir # None THEN idx ELSE 0
       /\ \A j \in 1..Len(attention_scores_accum) :
            /\ Len(attention_scores_accum[j]) =
                 get_prediction_length(source[j].predicted_tokens)
            /\ \A t \in 1..Len(attention_scores_accum[j]) :
                 /\ Len(attention_scores_accum[j][t]) = source[j].source_len
                 /\ \A c \in 1..Len(attention_scores_accum[j][t]) :
                      attention_scores_accum[j][t][c] =
                        [ex |-> source[j].id, t |-> t, s |-> c]
  /\ WritesOf("savez") # {} => pc = "done" /\ pending = <<>>
  /\ pc = "done" =>
       /\ (\E w \in WritesOf("savez") :
             fs[w].path = FLAGS.dump_beams /\ fs[w].arrays = beam_accum)
          <=> FLAGS.dump_beams # None
       /\ (\E w \in WritesOf("savez") :
             /\ fs[w].path = PathJoin(FLAGS.dump_attention_dir,
                                      "attention_scores.npz")
             /\ fs[w].arrays = attention_scores_accum)
          <=> FLAGS.dump_attention_dir # None

C10_Witness ==
  /\ pc = "done"
  /\ idx = MaxExamples
  /\ FLAGS.dump_beams # None
  /\ FLAGS.dump_attention_dir # None
  /\ Len(beam_accum.log_probs) = MaxExamples
  /\ Len(attention_scores_accum) = MaxExamples

(***************************************************************************)
(* get_prediction_length as a function of its input (SpecFn).              *)
(***************************************************************************)
MainIdle ==
  /\ FLAGS = Flags(None, <<" ">>, FALSE, None, None, None, None)
  /\ model_predictions = ModelPredictions(FALSE, FALSE)
  /\ latest = None
  /\ source = <<>>
  /\ pending = <<>>
  /\ pc = "idle"
  /\ raised = None
  /\ predictions = model_predictions
  /\ unk_replace_fn = NoFn
  /\ checkpoint_path = None
  /\ sess_log = <<>>
  /\ attention_scores_accum = <<>>
  /\ beam_accum = EmptyBeamAccum
  /\ idx = 0
  /\ unk_calls = <<>>
  /\ stdout = <<>>
  /\ fs = <<>>

VocabFn == {<<"a">>, <<"b", "@", "@">>, UNK, SEQUENCE_END}
BeamWidths == {1, 2}

\* decoded token arrays: one-dimensional, or [len, width] under beam search
TokenArrays(vocab) ==
  {TokenArray(t, w) : t \in SeqsUpTo(vocab, MaxTokens), w \in {0} \cup BeamWidths}

InitFn ==
  /\ fn_in \in TokenArrays(VocabFn)
  /\ fn_out = NotApplied
  /\ MainIdle /\ LrIdle /\ OptsIdle

\* infer.py 72-79 applied to predictions_dict["predicted_tokens"] = fn_in
ApplyPredictionLength ==
  /\ ~ fn_out.applied
  /\ fn_out' =
       IF get_prediction_length(fn_in) = ValueErrorLen
       THEN [applied |-> TRUE, raised |-> "ValueError", value |-> ValueErrorLen]
       ELSE [applied |-> TRUE, raised |-> None,
             value |-> get_prediction_length(fn_in)]
  /\ UNCHANGED <<fn_in, main_vars, lr_vars, opts_vars>>

NextFn == ApplyPredictionLength
SpecFn == InitFn /\ [][NextFn]_vars

\* C3: on a token sequence, get_prediction_length returns i + 1 for the
\* zero-based index i of the first SEQUENCE_END token (the one-based index of
\* that token) and the number of tokens when there is none; the result lies
\* between 0 and the length, and is at least 1 for a non-empty sequence.
C3_PredictionLength ==
  (fn_out.applied /\ fn_in.ndim = 1) =>
    LET tokens == fn_in.data
        ends == {i \in 1..Len(tokens) : tokens[i] = SEQUENCE_END}
    IN /\ fn_out.raised = None
       /\ ends = {} => fn_out.value = Len(tokens)
       /\ ends # {} => /\ fn_out.value \in ends
                       /\ \A i \in ends : fn_out.value <= i
       /\ 0 <= fn_out.value /\ fn_out.value <= Len(tokens)
       /\ Len(tokens) > 0 => fn_out.value >= 1

C3_Witness ==
  /\ fn_out.applied
  /\ fn_in.ndim = 1
  /\ Len(fn_in.data) = MaxTokens
  /\ \A i \in 1..Len(fn_in.data) : fn_in.data[i] = SEQUENCE_END
  /\ fn_out.value = 1

(***************************************************************************)
(* main with UNK replacement on (SpecAttn): source sentences of every      *)
(* length up to MaxSourceLen, with and without padding, and predictions    *)
(* with and without UNK placeholders.                                      *)
(***************************************************************************)
FlagsAttn ==
  {Flags(None, <<" ">>, TRUE, mapping, dir, "1", None) :
     mapping \in {None, "unk_mapping.txt"}, dir \in {None, "att"}}

ExamplesAttn ==
  {Example(1, tokens, width, words, padding) :
     tokens \in SeqsUpTo({UNK, <<"a">>}, MaxTokens), width \in {0, 2},
     words \in SeqsUpTo({<<"x">>, <<"y">>}, MaxSourceLen - 1),
     padding \in {0, 1}}

SourcesAttn == SeqsUpTo(ExamplesAttn, 1)

InitAttn == MainInit(FlagsAttn, {ModelPredictions(TRUE, FALSE)}, SourcesAttn)
SpecAttn == InitAttn /\ [][Next]_vars

\* C9: the attention scores handed to unk_replace for an example hold, in
\* every row, exactly the source columns 0 .. source_len-2 (one-based
\* 1 .. source_len-1), so a replaced UNK is never the SEQUENCE_END token of
\* the source nor padding; the scores kept in predictions_dict, which the
\* attention dump reads, still hold all source_len columns.
C9_HandedColumns ==
  /\ \A n \in 1..Len(unk_calls) :
       LET call == unk_calls[n]
           ex == source[n]
       IN /\ Len(call.attention_scores) = Len(ex.attention_scores)
          /\ \A t \in 1..Len(call.attention_scores) :
               /\ Len(call.attention_scores[t]) = ex.source_len - 1
               /\ \A c \in 1..Len(call.attention_scores[t]) :
                    call.attention_scores[t][c] = ex.attention_scores[t][c]
          /\ \A i \in 1..Len(call.predicted_tokens) :
               call.predicted_tokens[i] = UNK =>
                 /\ call.result[i] # SEQUENCE_END
                 /\ call.result[i] # <<>>
                 /\ \/ call.result[i] = UNK
                    \/ \E c \in 1..(ex.source_len - 1) :
                         call.result[i] \in {ex.source_tokens[c],
                                             IF ex.source_tokens[c] = <<"x">>
                                             THEN <<"X">> ELSE ex.source_tokens[c]}
  /\ \A j \in 1..Len(attention_scores_accum) :
       \A t \in 1..Len(attention_scores_accum[j]) :
         /\ Len(attention_scores_accum[j][t]) = source[j].source_len
         /\ \A c \in 1..source[j].source_len :
              attention_scores_accum[j][t][c] = source[j].attention_scores[t][c]

C9_Witness ==
  /\ pc = "done"
  /\ Len(unk_calls) = 1
  /\ Len(attention_scores_accum) = 1
  /\ source[1].source_len = MaxSourceLen
  /\ Len(source[1].source_tokens) > source[1].source_len
  /\ \E i \in 1..Len(unk_calls[1].predicted_tokens) :
       /\ unk_calls[1].predicted_tokens[i] = UNK
       /\ unk_calls[1].result[i] = source[1].source_tokens[MaxSourceLen - 1]
  /\ Len(attention_scores_accum[1]) > 0
  /\ Len(unk_calls[1].attention_scores[1]) = MaxSourceLen - 1
  /\ Len(attention_scores_accum[1][1]) = MaxSourceLen

(***************************************************************************)
(* main with a model that outputs every key, so that no dict lookup fails  *)
(* (SpecDump: the dump flags vary; SpecSent: the tokens and the delimiter  *)
(* vary).                                                                  *)
(***************************************************************************)
FlagsDump ==
  {Flags(None, <<" ">>, FALSE, None, dir, no_plot, beams) :
     dir \in {None, "att"}, no_plot \in {None, "1"},
     beams \in {None, "beams.npz"}}

InitDump == MainInit(FlagsDump, {ModelPredictions(TRUE, TRUE)}, SourcesMain)
SpecDump == InitDump /\ [][Next]_vars

SavefigPaths == [n \in 1..Cardinality(WritesOf("savefig")) |->
                   fs[CHOOSE w \in WritesOf("savefig") :
                        Cardinality({v \in WritesOf("savefig") : v <= w}) = n].path]

\* C7: with dump_attention_dir set, no PNG is written for any example when
\* dump_attention_no_plot is set, and exactly one PNG, named by the
\* zero-padded five-digit index, is written per example the iterator has
\* yielded when it is not set; without dump_attention_dir neither a PNG nor
\* attention_scores.npz is written.
C7_OnePlotPerExample ==
  /\ (FLAGS.dump_attention_dir # None /\ FLAGS.dump_attention_no_plot # None)
       => WritesOf("savefig") = {}
  /\ (FLAGS.dump_attention_dir # None /\ FLAGS.dump_attention_no_plot = None)
       => SavefigPaths =
            [j \in 1..Yielded |->
               FLAGS.dump_attention_dir \o "/" \o Format05d(j - 1) \o ".png"]
  /\ FLAGS.dump_attention_dir = None
       => /\ WritesOf("savefig") = {}
          /\ \A w \in WritesOf("savez") : fs[w].path = FLAGS.dump_beams

VocabSent == {<<"a">>, <<"b", "@", "@">>, SEQUENCE_END}

FlagsSent ==
  {Flags(None, delimiter, FALSE, None, dir, "1", None) :
     delimiter \in {<<" ">>, <<>>}, dir \in {None, "att"}}

ExamplesSent ==
  {Example(1, tokens, width, <<<<"x">>>>, 0) :
     tokens \in SeqsUpTo(VocabSent, MaxTokens), width \in {0} \cup BeamWidths}

InitSent ==
  MainInit(FlagsSent, {ModelPredictions(TRUE, TRUE)},
           SeqsUpTo(ExamplesSent, MaxExamples))
SpecSent == InitSent /\ [][Next]_vars

\* the line the claim describes for one example
C8_Line(ex) ==
  Strip(Replace(SplitFirst(Join(FLAGS.delimiter, FirstBeam(ex.predicted_tokens)),
                           SEQUENCE_END),
                BPE_MARKER, <<>>))

C8_LinesAsDescribed ==
  \A j \in 1..Len(stdout) :
    LET tokens == FirstBeam(source[j].predicted_tokens)
        length == get_prediction_length(Array1(tokens))
    IN /\ stdout[j] = C8_Line(source[j])
       /\ ~ Contains(stdout[j], SEQUENCE_END)
       /\ (/\ FLAGS.delimiter = <<" ">>
           /\ \A i \in 1..Len(tokens) : ~ Contains(tokens[i], <<"@", "@">>)
           /\ \E i \in 1..Len(tokens) : tokens[i] = SEQUENCE_END)
            => Words(stdout[j]) = SubSeq(tokens, 1, length - 1)

\* C8: for every example the iterator has yielded main has printed exactly
\* one line, in iterator order: the first-beam tokens joined with the
\* delimiter, cut at the first SEQUENCE_END, "@@ " removed, stripped; no line
\* contains SEQUENCE_END; with the default delimiter and no BPE markers the
\* words of the line are the first get_prediction_length-1 tokens when a
\* SEQUENCE_END token is present.
C8_OneLinePerExample ==
  /\ Len(stdout) = Yielded
  /\ C8_LinesAsDescribed

(***************************************************************************)
(* Learning-rate decay (SpecLR).  training_utils.create_learning_rate_     *)
(* decay_fn is not among the sources; TestLRDecay calls it and the         *)
(* specification gives its formula, from which it is modelled.  Rates are  *)
(* exact rationals <<numerator, denominator>>.  The fractional power       *)
(* decay_rate^(k / decay_steps) is computed exactly by drawing the         *)
(* decay_steps-th root of decay_rate: decay_rate = root^decay_steps, so    *)
(* the power is root^k.                                                    *)
(***************************************************************************)
RatLeq(a, b) == a[1] * b[2] <= b[1] * a[2]
RatEq(a, b) == a[1] * b[2] = b[1] * a[2]
RatMax(a, b) == IF RatLeq(a, b) THEN b ELSE a
RatTimes(a, b) == <<a[1] * b[1], a[2] * b[2]>>
RatPow(a, k) == <<a[1] ^ k, a[2] ^ k>>

NoMin == [given |-> FALSE]
MinRate(q) == [given |-> TRUE, rate |-> q]

\* clamp(step, start_decay_at, stop_decay_at)
Clamp(step, lo, hi) == IF step < lo THEN lo ELSE IF step > hi THEN hi ELSE step

\* a slip: the step is not held at stop_decay_at
DecayFnNoStop(p, initial_lr, step) ==
  LET k == (IF step < p.start_decay_at THEN p.start_decay_at ELSE step)
           - p.start_decay_at
      decayed == RatTimes(initial_lr, RatPow(p.root, k))
  IN IF p.min_learning_rate.given
     THEN RatMax(p.min_learning_rate.rate, decayed) ELSE decayed

\* the function create_learning_rate_decay_fn("exponential_decay", ...,
\* staircase=False) returns, applied to (initial_lr, step)
DecayFn(p, initial_lr, step) ==
  LET k == Clamp(step, p.start_decay_at, p.stop_decay_at) - p.start_decay_at
      decayed == RatTimes(initial_lr, RatPow(p.root, k))
  IN IF p.min_learning_rate.given
     THEN RatMax(p.min_learning_rate.rate, decayed) ELSE decayed

DecayParams ==
  [decay_steps : {1, 2},
   root : {<<1, 2>>, <<2, 3>>, <<2, 1>>},
   start_decay_at : 0..MaxStep,
   stop_decay_at : 0..MaxStep,
   min_learning_rate : {NoMin, MinRate(<<1, 2>>)}]

InitLR ==
  /\ lr \in {[at |-> "created", params |-> p, initial_lr |-> l] :
               p \in {p \in DecayParams : p.start_decay_at <= p.stop_decay_at},
               l \in {<<1, 1>>, <<1, 4>>}}
  /\ MainIdle /\ FnIdle /\ OptsIdle

\* decay_fn(initial_lr, step), as the tests call it
CallDecayFn ==
  /\ lr.at \in {"created", "called"}
  /\ \E step \in 0..MaxStep :
       lr' = [at |-> "called", params |-> lr.params,
              initial_lr |-> lr.initial_lr, step |-> step,
              value |-> DecayFn(lr.params, lr.initial_lr, step)]
  /\ UNCHANGED <<main_vars, fn_vars, opts_vars>>

NextLR == CallDecayFn
SpecLR == InitLR /\ [][NextLR]_vars

\* the decay rate the caller passed: root^decay_steps
C5_DecayRate == RatPow(lr.params.root, lr.params.decay_steps)

\* value = max(min, initial_lr * decay_rate^(k / decay_steps)), stated
\* without fractional powers: (decayed / initial_lr)^decay_steps =
\* decay_rate^k, where k = clamp(step, start, stop) - start
C5_Formula ==
  LET p == lr.params
      k == Clamp(lr.step, p.start_decay_at, p.stop_decay_at) - p.start_decay_at
  IN \E decayed \in {lr.value, DecayFn([p EXCEPT !.min_learning_rate = NoMin],
                                       lr.initial_lr, lr.step)} :
       /\ RatEq(RatPow(decayed, p.decay_steps),
                RatTimes(RatPow(lr.initial_lr, p.decay_steps),
                         RatPow(C5_DecayRate, k)))
       /\ IF p.min_learning_rate.given
          THEN RatEq(lr.value, RatMax(p.min_learning_rate.rate, decayed))
          ELSE RatEq(lr.value, decayed)

C5_HeldAfterStop ==
  lr.step >= lr.params.stop_decay_at =>
    RatEq(lr.value, DecayFn(lr.params, lr.initial_lr, lr.params.stop_decay_at))

C5_NeverBelowMin ==
  lr.params.min_learning_rate.given =>
    RatLeq(lr.params.min_learning_rate.rate, lr.value)

\* C5 as stated: the formula, and before start_decay_at the value is
\* initial_lr unchanged, from stop_decay_at on it is the value at
\* stop_decay_at, and it is never below min_learning_rate.
C5_Original ==
  lr.at = "called" =>
    /\ C5_Formula
    /\ lr.step < lr.params.start_decay_at => RatEq(lr.value, lr.initial_lr)
    /\ C5_HeldAfterStop
    /\ C5_NeverBelowMin

\* C5 amended: the formula; before start_decay_at the value is
\* max(min_learning_rate, initial_lr), which is initial_lr unchanged when no
\* minimum is given or initial_lr is not below it; from stop_decay_at on it
\* is the value at stop_decay_at; it is never below min_learning_rate.
C5_DecaySchedule ==
  lr.at = "called" =>
    /\ C5_Formula
    /\ lr.step < lr.params.start_decay_at =>
         IF /\ lr.params.min_learning_rate.given
            /\ ~ RatLeq(lr.params.min_learning_rate.rate, lr.initial_lr)
         THEN RatEq(lr.value, lr.params.min_learning_rate.rate)
         ELSE RatEq(lr.value, lr.initial_lr)
    /\ C5_HeldAfterStop
    /\ C5_NeverBelowMin

C5_Witness ==
  /\ lr.at = "called"
  /\ lr.step < lr.params.start_decay_at
  /\ lr.params.start_decay_at < lr.params.stop_decay_at
  /\ lr.params.decay_steps = 2
  /\ lr.params.min_learning_rate.given
  /\ ~ RatLeq(lr.params.min_learning_rate.rate, lr.initial_lr)
  /\ RatEq(lr.value, lr.params.min_learning_rate.rate)

(***************************************************************************)
(* TrainOptions persistence (SpecOpts).  training_utils.TrainOptions is    *)
(* not among the sources; TestTrainOptions uses it and the specification   *)
(* describes a round trip of a small options record to and from disk, from *)
(* which it is modelled: dump serialises the four fields to one file in    *)
(* model_dir, load parses that file.  A serialised value is tagged with    *)
(* its kind, as a text format tells null, a string and an object apart.    *)
(***************************************************************************)
\* a slip: None written as the text of its name
EncodeAsText(value) == [kind |-> "string", text |-> IF value = None THEN "None" ELSE value]

\* an optional string field, serialised
EncodeOptional(value) ==
  IF value = None THEN [kind |-> "null"] ELSE [kind |-> "string", text |-> value]

DecodeOptional(encoded) ==
  IF encoded.kind = "null" THEN None ELSE encoded.text

\* TrainOptions.dump: the contents of the file written
Serialise(o) ==
  [hparams |-> [kind |-> "object", members |-> o.hparams],
   model_class |-> EncodeOptional(o.model_class),
   source_vocab_path |-> EncodeOptional(o.source_vocab_path),
   target_vocab_path |-> EncodeOptional(o.target_vocab_path)]

\* TrainOptions.load: the record built from the file's contents
Parse(file) ==
  [at |-> "loaded",
   hparams |-> file.hparams.members,
   model_class |-> DecodeOptional(file.model_class),
   source_vocab_path |-> DecodeOptional(file.source_vocab_path),
   target_vocab_path |-> DecodeOptional(file.target_vocab_path)]

OptionsPath(model_dir) == model_dir \o "/train_options.json"

ModelDirs == {"tmp_a", "tmp_b"}

\* hyperparameter dicts: names to values
HParams ==
  {[n \in {} |-> 0], [n \in {"num_layers"} |-> 4],
   [n \in {"num_layers", "beam_width"} |-> IF n = "num_layers" THEN 4 ELSE 0]}

InitOpts ==
  /\ opts \in [at : {"constructed"},
               hparams : HParams,
               model_class : {None, "AttentionSeq2Seq", "None", "null"},
               source_vocab_path : {None, "some_file"},
               target_vocab_path : {None, "some_file2"}]
  /\ disk = NoFiles
  /\ loaded = [at |-> "idle"]
  /\ MainIdle /\ FnIdle /\ LrIdle

\* saved_opts.dump(model_dir)
Dump ==
  /\ opts.at = "constructed"
  /\ \E model_dir \in ModelDirs :
       disk' = [p \in DOMAIN disk \cup {OptionsPath(model_dir)} |->
                  IF p = OptionsPath(model_dir) THEN Serialise(opts) ELSE disk[p]]
  /\ UNCHANGED <<opts, loaded, main_vars, fn_vars, lr_vars>>

\* loaded_opt = TrainOptions.load(model_dir), for a model_dir dumped to
Load ==
  /\ \E model_dir \in ModelDirs :
       /\ OptionsPath(model_dir) \in DOMAIN disk
       /\ loaded' = Parse(disk[OptionsPath(model_dir)])
  /\ UNCHANGED <<opts, disk, main_vars, fn_vars, lr_vars>>

NextOpts == Dump \/ Load
SpecOpts == InitOpts /\ [][NextOpts]_vars

====
